---- MODULE Spec2Model ----
(***************************************************************************)
(* A model of rescue_bson.py, the resilient BSON decoder.                  *)
(*                                                                         *)
(* A buffer is a sequence of bytes (0..255); cursors are Python indices    *)
(* (0-based, negative ones counting from the end, as Python's str does).   *)
(* Every decoder is an operator that returns a record                      *)
(*   [st, exc, value, position, rnd]                                       *)
(* st = "ok"    : the function returned (value, position)                  *)
(* st = "raise" : it raised the exception named by exc                     *)
(* st = "hang"  : it never returns (the loop of _elements_to_dict came     *)
(*                back to a cursor it had already parsed from)             *)
(* rnd counts the calls of random.randint made so far; the k-th call       *)
(* returns the k-th value of the tape (read cyclically).                   *)
(*                                                                         *)
(* Decoded values are records [kind, v]; a mapping (dict) is a function    *)
(* from keys to values; a key and a decoded string are sequences of code   *)
(* points.  Fixed-width numbers wider than 31 bits are kept as their       *)
(* little-endian bytes (struct.unpack is a bijection on them).             *)
(***************************************************************************)
EXTENDS Integers, Sequences, FiniteSets, TLC

(***************************************************************************)
(* Python 2 str primitives                                                 *)
(***************************************************************************)

\* A slice bound as Python normalises it: negative bounds count from the
\* end, and all bounds are clamped to 0..n.
PyClamp(i, n) ==
    IF i < 0 THEN (IF i + n < 0 THEN 0 ELSE i + n)
    ELSE (IF i > n THEN n ELSE i)

\* data[a:b]
PySlice(data, a, b) ==
    LET n  == Len(data)
        lo == PyClamp(a, n)
        hi == PyClamp(b, n)
    IN  IF lo >= hi THEN <<>> ELSE SubSeq(data, lo + 1, hi)

\* data[i] raises IndexError unless -len <= i < len
PyInRange(data, i) == -Len(data) <= i /\ i < Len(data)

\* data[i], for i in range
PyItem(data, i) == data[(IF i < 0 THEN i + Len(data) ELSE i) + 1]

\* data.index("\x00", position): the least index >= position holding NUL,
\* -1 when there is none (Python raises ValueError)
PyIndexNul(data, position) ==
    LET n     == Len(data)
        start == PyClamp(position, n)
        hits  == {i \in start .. (n - 1) : data[i + 1] = 0}
    IN  IF hits = {} THEN -1
        ELSE CHOOSE i \in hits : \A j \in hits : i <= j

\* struct.unpack("<i", b)[0] for a 4-byte b
unpack_i(b) ==
    b[1] + 256 * b[2] + 65536 * b[3]
      + 16777216 * (IF b[4] >= 128 THEN b[4] - 256 ELSE b[4])

\* Python's integers are unbounded.  A cursor that a declared size or length
\* has moved farther than Far from the buffer is kept at Far (or -Far):
\* every index, slice and search treats all such cursors alike, and a loop
\* whose cursor is one ends at its next element.
Far == 2^30 - 1
Sat(x) == IF x > Far THEN Far ELSE IF x < -Far THEN -Far ELSE x
Add(a, b) == Sat(Sat(a) + Sat(b))

\* str(i) for i >= 0, as code points
RECURSIVE str(_)
str(i) == IF i < 10 THEN <<48 + i>> ELSE str(i \div 10) \o <<48 + (i % 10)>>

\* unicode(s, "utf-8") of Python 2.7: [ok, cps]; ok = FALSE is
\* UnicodeDecodeError.  Overlong forms and lead bytes above 0xF4 are
\* rejected; surrogates are accepted (Python 2).
RECURSIVE utf8_decode(_)
utf8_decode(s) ==
    IF s = <<>> THEN [ok |-> TRUE, cps |-> <<>>]
    ELSE
      LET b == s[1]
          n == Len(s)
          Cont(i) == i <= n /\ s[i] >= 128 /\ s[i] <= 191
          width == IF b < 128 THEN 1
                   ELSE IF b >= 194 /\ b <= 223 THEN 2
                   ELSE IF b >= 224 /\ b <= 239 THEN 3
                   ELSE IF b >= 240 /\ b <= 244 THEN 4
                   ELSE 0
          valid == CASE width = 1 -> TRUE
                     [] width = 2 -> Cont(2)
                     [] width = 3 -> Cont(2) /\ Cont(3) /\ (b = 224 => s[2] >= 160)
                     [] width = 4 -> Cont(2) /\ Cont(3) /\ Cont(4)
                                       /\ (b = 240 => s[2] >= 144)
                                       /\ (b = 244 => s[2] <= 143)
                     [] OTHER -> FALSE
          cp == CASE width = 1 -> b
                  [] width = 2 -> (b - 192) * 64 + (s[2] - 128)
                  [] width = 3 -> (b - 224) * 4096 + (s[2] - 128) * 64 + (s[3] - 128)
                  [] width = 4 -> (b - 240) * 262144 + (s[2] - 128) * 4096
                                    + (s[3] - 128) * 64 + (s[4] - 128)
                  [] OTHER -> 0
      IN  IF ~valid THEN [ok |-> FALSE, cps |-> <<>>]
          ELSE LET rest == utf8_decode(SubSeq(s, width + 1, n))
               IN  IF rest.ok THEN [ok |-> TRUE, cps |-> <<cp>> \o rest.cps]
                   ELSE [ok |-> FALSE, cps |-> <<>>]

(***************************************************************************)
(* Results and values                                                      *)
(***************************************************************************)

Val(kind, v) == [kind |-> kind, v |-> v]

None == Val("null", <<>>)

\* return value, position
Ok(value, position, rnd) ==
    [st |-> "ok", exc |-> "", value |-> value, position |-> position, rnd |-> rnd]

\* raise exc
Raise(exc, rnd) ==
    [st |-> "raise", exc |-> exc, value |-> None, position |-> 0, rnd |-> rnd]

\* the call never returns
Hang(rnd) ==
    [st |-> "hang", exc |-> "", value |-> None, position |-> 0, rnd |-> rnd]

\* random.randint(0, 99999999), the (rnd+1)-th call
randint(tape, rnd) == tape[(rnd % Len(tape)) + 1]

\* result[key] = value
DictSet(result, key, value) == (key :> value) @@ result

(***************************************************************************)
(* Scalar decoders                                                         *)
(***************************************************************************)

\* _get_int; as the int32 element getter the value is Val("int32", n)
_get_int(data, position, rnd) ==
    LET b == PySlice(data, position, position + 4)
    IN  IF Len(b) # 4 THEN Raise("InvalidBSON", rnd)
        ELSE Ok(unpack_i(b), position + 4, rnd)

\* _get_c_string returning the fake key, and the end of the buffer as the
\* new cursor, when the NUL is missing
_get_c_string_fake_on_missing_nul(data, position, length, tape, rnd) ==
    LET fake_key == <<85, 78, 75, 78, 79, 87, 78>> \o str(randint(tape, rnd))
        nul      == PyIndexNul(data, position)
    IN  IF length = <<>> /\ nul = -1 THEN Ok(fake_key, Len(data), rnd + 1)
        ELSE
          LET end   == IF length = <<>> THEN nul ELSE Add(position, length[1])
              dec   == utf8_decode(PySlice(data, position, end))
              value == IF dec.ok THEN dec.cps ELSE fake_key
          IN  Ok(value, end + 1, rnd + 1)

\* _get_c_string; length is <<>> for None and <<n>> for a given length.
\* The value is the decoded text, or the fake key when the bytes are not
\* UTF-8; a missing NUL re-raises the ValueError of data.index.
_get_c_string(data, position, length, tape, rnd) ==
    LET fake_key == <<85, 78, 75, 78, 79, 87, 78>> \o str(randint(tape, rnd))
        nul      == PyIndexNul(data, position)
    IN  IF length = <<>> /\ nul = -1 THEN Raise("ValueError", rnd + 1)
        ELSE
          LET end   == IF length = <<>> THEN nul ELSE Add(position, length[1])
              dec   == utf8_decode(PySlice(data, position, end))
              value == IF dec.ok THEN dec.cps ELSE fake_key
          IN  Ok(value, end + 1, rnd + 1)

_get_number(data, position, rnd) ==
    LET b == PySlice(data, position, position + 8)
    IN  IF Len(b) # 8 THEN Raise("struct.error", rnd)
        ELSE Ok(Val("double", b), position + 8, rnd)

\* _get_string, returning the text itself (the callers wrap it)
_get_string(data, position, tape, rnd) ==
    LET b == PySlice(data, position, position + 4)
    IN  IF Len(b) # 4 THEN Raise("struct.error", rnd)
        ELSE _get_c_string(data, position + 4, <<Add(unpack_i(b), -1)>>, tape, rnd)

_get_oid(data, position, rnd) ==
    LET b == PySlice(data, position, position + 12)
    IN  IF Len(b) # 12 THEN Raise("InvalidId", rnd)
        ELSE Ok(Val("oid", b), position + 12, rnd)

_get_boolean(data, position, rnd) ==
    IF ~PyInRange(data, position) THEN Raise("IndexError", rnd)
    ELSE Ok(Val("bool", PyItem(data, position) = 1), position + 1, rnd)

\* The 64-bit value of 8 little-endian bytes as <<high signed 32 bits,
\* bits 31..16, bits 15..0>>, and the order on such triples
Int64Words(b) ==
    << unpack_i(SubSeq(b, 5, 8)), b[3] + 256 * b[4], b[1] + 256 * b[2] >>

WordsLeq(x, y) ==
    \/ x[1] < y[1]
    \/ x[1] = y[1] /\ x[2] < y[2]
    \/ x[1] = y[1] /\ x[2] = y[2] /\ x[3] <= y[3]

\* milliseconds of datetime.min (-62135596800000) and datetime.max
\* (253402300799999) relative to the epoch
DateMinMs == <<-14468, 60883, 10240>>
DateMaxMs == <<58999, 53791, 56319>>

\* _get_date: EPOCH + timedelta raises OverflowError outside years 1..9999
_get_date(data, position, rnd) ==
    LET b == PySlice(data, position, position + 8)
    IN  IF Len(b) # 8 THEN Raise("struct.error", rnd)
        ELSE IF ~(WordsLeq(DateMinMs, Int64Words(b)) /\ WordsLeq(Int64Words(b), DateMaxMs))
             THEN Raise("OverflowError", rnd)
        ELSE Ok(Val("date", b), position + 8, rnd)

_get_null(data, position, rnd) == Ok(None, position, rnd)

_get_timestamp(data, position, rnd) ==
    LET inc       == PySlice(data, position, position + 4)
        timestamp == PySlice(data, position + 4, position + 8)
    IN  IF Len(inc) # 4 \/ Len(timestamp) # 4 THEN Raise("InvalidBSON", rnd)
        ELSE Ok(Val("timestamp", <<timestamp, inc>>), position + 8, rnd)

_get_long(data, position, rnd) ==
    LET b == PySlice(data, position, position + 8)
    IN  IF Len(b) # 8 THEN Raise("struct.error", rnd)
        ELSE Ok(Val("int64", b), position + 8, rnd)

\* uuid is importable on every Python 2.5+
_use_uuid == TRUE

_get_binary(data, position, rnd) ==
    LET Payload(subtype, length, p) ==
            LET bytes == PySlice(data, p, Add(p, length))
            IN  IF subtype \in {3, 4} /\ _use_uuid
                THEN IF Len(bytes) # 16 THEN Raise("ValueError", rnd)
                     ELSE Ok(Val("uuid", bytes), Add(p, length), rnd)
                ELSE Ok(Val("binary", <<subtype, bytes>>), Add(p, length), rnd)
        Subtype2(length, r2) ==
            IF r2.st # "ok" THEN r2
            ELSE IF ~(IF length < 0 THEN r2.value < 0 /\ r2.value + 4 = length
                       ELSE r2.value = length - 4)
                 THEN Raise("InvalidBSON", rnd)
            ELSE Payload(2, r2.value, r2.position)
        Sized(r1) ==
            IF r1.st # "ok" THEN r1
            ELSE IF ~PyInRange(data, r1.position) THEN Raise("IndexError", rnd)
            ELSE IF PyItem(data, r1.position) = 2
                 THEN Subtype2(r1.value, _get_int(data, r1.position + 1, rnd))
            ELSE Payload(PyItem(data, r1.position), r1.value, r1.position + 1)
    IN  Sized(_get_int(data, position, rnd))

\* re.compile(pattern, flags) raises re.error on an ill-formed pattern; of
\* the pattern syntax, the model knows the grouping parentheses: a pattern
\* compiles iff its parentheses balance.
RECURSIVE ParenDepth(_, _)
ParenDepth(pattern, depth) ==
    IF depth < 0 \/ pattern = <<>> THEN depth
    ELSE ParenDepth(Tail(pattern),
                    IF pattern[1] = 40 THEN depth + 1
                    ELSE IF pattern[1] = 41 THEN depth - 1
                    ELSE depth)

re_compile_ok(pattern) == ParenDepth(pattern, 0) = 0

HasChar(text, c) == \E i \in 1 .. Len(text) : text[i] = c

_get_regex(data, position, tape, rnd) ==
    LET Flags(bson_flags) ==
              (IF HasChar(bson_flags, 105) THEN 2 ELSE 0)
            + (IF HasChar(bson_flags, 108) THEN 4 ELSE 0)
            + (IF HasChar(bson_flags, 109) THEN 8 ELSE 0)
            + (IF HasChar(bson_flags, 115) THEN 16 ELSE 0)
            + (IF HasChar(bson_flags, 117) THEN 32 ELSE 0)
            + (IF HasChar(bson_flags, 120) THEN 64 ELSE 0)
        Compile(pattern, r2) ==
            IF r2.st # "ok" THEN r2
            ELSE IF ~re_compile_ok(pattern) THEN Raise("re.error", r2.rnd)
            ELSE Ok(Val("regex", <<pattern, Flags(r2.value)>>), r2.position, r2.rnd)
        Pattern(r1) ==
            IF r1.st # "ok" THEN r1
            ELSE Compile(r1.value, _get_c_string(data, r1.position, <<>>, tape, r1.rnd))
    IN  Pattern(_get_c_string(data, position, <<>>, tape, rnd))

\* _get_ref calls _get_oid(data, position) with two arguments of the four
\* it takes: once the collection name is read, the call raises TypeError.
_get_ref(data, position, tape, rnd) ==
    LET Collection(r1) == IF r1.st # "ok" THEN r1 ELSE Raise("TypeError", r1.rnd)
    IN  Collection(_get_c_string(data, position + 4, <<>>, tape, rnd))

\* Code(code): the scope is the empty mapping
_get_code(data, position, tape, rnd) ==
    LET Code(r1) ==
            IF r1.st # "ok" THEN r1
            ELSE Ok(Val("code", <<r1.value, <<>> >>), r1.position, r1.rnd)
    IN  Code(_get_string(data, position, tape, rnd))

(***************************************************************************)
(* Composite decoders, the Element Parser and the Document Parser          *)
(***************************************************************************)

RECURSIVE _elements_to_dict(_, _, _, _, _)
RECURSIVE _element_to_dict(_, _, _, _)
RECURSIVE ElementsLoop(_, _, _, _, _, _, _)

\* _get_object with the new cursor taken from where _elements_to_dict
\* stopped, past the terminator, instead of from obj_size
_get_object_advances_by_consumed(data, position, tape, rnd) ==
    LET b == PySlice(data, position, position + 4)
        Return(obj_size, object) ==
            IF object.st # "ok" THEN object
            ELSE Ok(object.value, object.position + 1, object.rnd)
        Sized(obj_size) ==
            Return(obj_size,
                   _elements_to_dict(data, position + 4,
                                     Add(Add(position, obj_size), -1), tape, rnd))
    IN  IF Len(b) # 4 THEN Raise("struct.error", rnd)
        ELSE Sized(unpack_i(b))

\* _get_object: the mapping itself (the element getter wraps it).  The new
\* cursor is position + obj_size whatever _elements_to_dict consumed.
_get_object(data, position, tape, rnd) ==
    LET b == PySlice(data, position, position + 4)
        Return(obj_size, object) ==
            IF object.st # "ok" THEN object
            ELSE Ok(object.value, Add(position, obj_size), object.rnd)
        Sized(obj_size) ==
            Return(obj_size,
                   _elements_to_dict(data, position + 4,
                                     Add(Add(position, obj_size), -1), tape, rnd))
    IN  IF Len(b) # 4 THEN Raise("struct.error", rnd)
        ELSE Sized(unpack_i(b))

\* the loop of _get_array: obj[str(i)] for i = 0, 1, ... until KeyError
RECURSIVE ArrayItems(_, _)

\* the loop of _get_array going on past an absent index
ArrayItems_past_gaps(obj, i) ==
    IF i > Cardinality(DOMAIN obj) THEN <<>>
    ELSE IF str(i) \in DOMAIN obj THEN <<obj[str(i)]>> \o ArrayItems(obj, i + 1)
    ELSE ArrayItems(obj, i + 1)

ArrayItems(obj, i) ==
    IF str(i) \in DOMAIN obj THEN <<obj[str(i)]>> \o ArrayItems(obj, i + 1)
    ELSE <<>>

_get_array(data, position, tape, rnd) ==
    LET Project(r) ==
            IF r.st # "ok" THEN r
            ELSE Ok(Val("array", ArrayItems(r.value, 0)), r.position, r.rnd)
    IN  Project(_get_object(data, position, tape, rnd))

_get_code_w_scope(data, position, tape, rnd) ==
    LET Scoped(code, r3) ==
            IF r3.st # "ok" THEN r3
            ELSE Ok(Val("code", <<code, r3.value>>), r3.position, r3.rnd)
        Coded(r2) ==
            IF r2.st # "ok" THEN r2
            ELSE Scoped(r2.value, _get_object(data, r2.position, tape, r2.rnd))
        Sized(r1) ==
            IF r1.st # "ok" THEN r1
            ELSE Coded(_get_string(data, r1.position, tape, rnd))
    IN  Sized(_get_int(data, position, rnd))

\* the keys of the dispatch table _element_getter
ElementTypes == (1 .. 18) \cup {255, 127}

\* a getter's result with its value tagged by the element's kind
Tagged(kind, r) ==
    IF r.st = "ok" THEN [r EXCEPT !.value = Val(kind, r.value)] ELSE r

\* _element_getter[element_type](data, position, as_class, tz_aware)
_element_getter(element_type, data, position, tape, rnd) ==
    CASE element_type = 1  -> _get_number(data, position, rnd)
      [] element_type = 2  -> Tagged("string", _get_string(data, position, tape, rnd))
      [] element_type = 3  -> Tagged("document", _get_object(data, position, tape, rnd))
      [] element_type = 4  -> _get_array(data, position, tape, rnd)
      [] element_type = 5  -> _get_binary(data, position, rnd)
      [] element_type = 6  -> _get_null(data, position, rnd)
      [] element_type = 7  -> _get_oid(data, position, rnd)
      [] element_type = 8  -> _get_boolean(data, position, rnd)
      [] element_type = 9  -> _get_date(data, position, rnd)
      [] element_type = 10 -> _get_null(data, position, rnd)
      [] element_type = 11 -> _get_regex(data, position, tape, rnd)
      [] element_type = 12 -> _get_ref(data, position, tape, rnd)
      [] element_type = 13 -> _get_code(data, position, tape, rnd)
      [] element_type = 14 -> Tagged("string", _get_string(data, position, tape, rnd))
      [] element_type = 15 -> _get_code_w_scope(data, position, tape, rnd)
      [] element_type = 16 -> Tagged("int32", _get_int(data, position, rnd))
      [] element_type = 17 -> _get_timestamp(data, position, rnd)
      [] element_type = 18 -> _get_long(data, position, rnd)
      [] element_type = 255 -> Ok(Val("minkey", <<>>), position, rnd)
      [] element_type = 127 -> Ok(Val("maxkey", <<>>), position, rnd)

\* _element_to_dict: the value of an "ok" result is <<element_name, value>>
\* _element_to_dict with an unknown type tag read as a null value instead
\* of raising
_element_to_dict_unknown_as_null(data, position, tape, rnd) ==
    LET Valued(element_name, r) ==
            IF r.st # "ok" THEN r
            ELSE Ok(<<element_name, r.value>>, r.position, r.rnd)
        Named(element_type, name) ==
            IF name.st # "ok" THEN name
            ELSE IF element_type \notin ElementTypes
                 THEN Ok(<<name.value, None>>, name.position, name.rnd)
            ELSE Valued(name.value,
                        _element_getter(element_type, data, name.position, tape, name.rnd))
    IN  IF ~PyInRange(data, position) THEN Raise("IndexError", rnd)
        ELSE Named(PyItem(data, position),
                   _get_c_string(data, position + 1, <<>>, tape, rnd))

_element_to_dict(data, position, tape, rnd) ==
    LET Valued(element_name, r) ==
            IF r.st # "ok" THEN r
            ELSE Ok(<<element_name, r.value>>, r.position, r.rnd)
        Named(element_type, name) ==
            IF name.st # "ok" THEN name
            ELSE IF element_type \notin ElementTypes THEN Raise("Exception", name.rnd)
            ELSE Valued(name.value,
                        _element_getter(element_type, data, name.position, tape, name.rnd))
    IN  IF ~PyInRange(data, position) THEN Raise("IndexError", rnd)
        ELSE Named(PyItem(data, position),
                   _get_c_string(data, position + 1, <<>>, tape, rnd))

\* the while loop of _elements_to_dict with a handler that drops the
\* mapping built so far when an element raises
ElementsLoop_drops_result(data, position, end, result, visited, tape, rnd) ==
    LET Step(e) ==
            CASE e.st = "ok" ->
                   ElementsLoop(data, e.position, end,
                                DictSet(result, e.value[1], e.value[2]),
                                visited \cup {position}, tape, e.rnd)
              [] e.st = "raise" -> Ok(<<>>, position, e.rnd)
              [] OTHER -> e
    IN  IF ~(position < end) THEN Ok(result, position, rnd)
        ELSE IF position \in visited THEN Hang(rnd)
        ELSE Step(_element_to_dict(data, position, tape, rnd))

\* The while loop of _elements_to_dict.  visited holds the cursors the loop
\* has parsed from: the new cursor of an element depends on the buffer and
\* the cursor alone, so a loop that comes back to one never ends.  An
\* exception of the element ends the loop with the mapping built so far.
ElementsLoop(data, position, end, result, visited, tape, rnd) ==
    LET Step(e) ==
            CASE e.st = "ok" ->
                   ElementsLoop(data, e.position, end,
                                DictSet(result, e.value[1], e.value[2]),
                                visited \cup {position}, tape, e.rnd)
              [] e.st = "raise" -> Ok(result, position, e.rnd)
              [] OTHER -> e
    IN  IF ~(position < end) THEN Ok(result, position, rnd)
        ELSE IF position \in visited THEN Hang(rnd)
        ELSE Step(_element_to_dict(data, position, tape, rnd))

_elements_to_dict(data, position, end, tape, rnd) ==
    ElementsLoop(data, position, end, <<>>, {}, tape, rnd)

(***************************************************************************)
(* State                                                                   *)
(***************************************************************************)

VARIABLES
    data,       \* the input buffer
    pc,         \* where the run stands
    position,   \* the cursor: decode_all's position, or the cursor of a call
    docs,       \* decode_all's list docs
    out,        \* the documents decode_all has printed, in order
    ret,        \* what the caller has received
    tape,       \* the values random.randint returned during the (first) call
    doc,        \* the well-formed document the buffer was made from (0: none)
    at,         \* the offset of the corrupted byte (-1: none)
    fn,         \* the function that was called
    tape2,      \* the values random.randint returned during a second decode
    ret2        \* the result of the second decode

vars == <<data, pc, position, docs, out, ret, tape, doc, at, fn, tape2, ret2>>

(***************************************************************************)
(* Inputs                                                                  *)
(***************************************************************************)

\* the values random.randint returns, and how many calls a tape holds
\* before it repeats
RandVals == {5, 6}
TapeLen == 2
Tapes == [1 .. TapeLen -> RandVals]

\* the bytes a corruption writes: NUL, small tags and sizes, "(", "4",
\* bytes that are not UTF-8, and sign bytes
CorruptBytes == {0, 1, 19, 40, 52, 128, 255}

\* buf with the byte at (0-based) offset i replaced by b
Corrupt(buf, i, b) == [buf EXCEPT ![i + 1] = b]

\* struct.pack("<i", n) for 0 <= n < 65536
pack_i(n) == <<n % 256, n \div 256, 0, 0>>

(***************************************************************************)
(* The stream decoder: decode_all                                          *)
(***************************************************************************)

\* top-level documents a stream is made of: {}, {"a": 1},
\* {"b": None, "c": True}, {"d": {"a": None}}, and a document whose string
\* element "a" declares the length -7
PoolDocs == {
    <<5, 0, 0, 0, 0>>,
    <<12, 0, 0, 0, 16, 97, 0, 1, 0, 0, 0, 0>>,
    <<12, 0, 0, 0, 10, 98, 0, 8, 99, 0, 1, 0>>,
    <<16, 0, 0, 0, 3, 100, 0, 8, 0, 0, 0, 10, 97, 0, 0, 0>>,
    <<12, 0, 0, 0, 2, 97, 0, 249, 255, 255, 255, 0>> }

\* the most documents in a stream, and the most documents a run prints
MaxDocs == 2
MaxPrinted == 4

RECURSIVE Streams(_)
Streams(n) ==
    IF n = 0 THEN {<<>>}
    ELSE LET s == Streams(n - 1) IN s \cup {x \o d : x \in s, d \in PoolDocs}

\* streams of pool documents, whole, cut short, or with one byte corrupted
StreamInputs ==
    LET whole == Streams(MaxDocs)
    IN  whole
        \cup UNION {{SubSeq(s, 1, n) : n \in 1 .. Len(s) - 1} : s \in whole}
        \cup UNION {{Corrupt(s, i, b) : i \in 0 .. Len(s) - 1, b \in CorruptBytes}
                    : s \in whole}

Init ==
    /\ data \in StreamInputs
    /\ pc = "loop"
    /\ position = 0
    /\ docs = <<>>
    /\ out = <<>>
    /\ ret = [kind |-> "none"]
    /\ tape = <<>> /\ doc = 0 /\ at = -1 /\ fn = "decode_all"
    /\ tape2 = <<>> /\ ret2 = [kind |-> "none"]

\* end = len(data) - 1
end == Len(data) - 1

\* data[position:position + 4] and the obj_size unpacked from it
header == PySlice(data, position, position + 4)
obj_size == unpack_i(header)

\* position + obj_size - 1, the index of the document's last byte
eoo == Add(Add(position, obj_size), -1)

\* raise exc(args) out of decode_all: the caller receives the exception
RaiseOut(exc, args) ==
    /\ pc' = "raised"
    /\ ret' = [kind |-> "raise", exc |-> exc, args |-> args]
    /\ UNCHANGED <<data, position, docs, out, tape, doc, at, fn, tape2, ret2>>

\* struct.unpack on fewer than 4 bytes
StructError ==
    /\ pc = "loop" /\ position < end
    /\ Len(header) # 4
    /\ RaiseOut("struct.error", <<>>)

ObjsizeTooLarge ==
    /\ pc = "loop" /\ position < end
    /\ Len(header) = 4
    /\ Len(data) - position < obj_size
    /\ RaiseOut("InvalidBSON", <<"objsize too large">>)

\* data[eoo] out of range
EooIndexError ==
    /\ pc = "loop" /\ position < end
    /\ Len(header) = 4
    /\ ~(Len(data) - position < obj_size)
    /\ ~PyInRange(data, eoo)
    /\ RaiseOut("IndexError", <<>>)

BadEoo ==
    /\ pc = "loop" /\ position < end
    /\ Len(header) = 4
    /\ ~(Len(data) - position < obj_size)
    /\ PyInRange(data, eoo)
    /\ PyItem(data, eoo) # 0
    /\ RaiseOut("InvalidBSON", <<"bad eoo">>)

FramingOk ==
    /\ pc = "loop" /\ position < end
    /\ Len(header) = 4
    /\ ~(Len(data) - position < obj_size)
    /\ PyInRange(data, eoo)
    /\ PyItem(data, eoo) = 0

\* One iteration of the loop past the framing checks: the document is
\* decoded and printed, and position advances by obj_size.  docs is not
\* appended to.  (_elements_to_dict raises nothing, so the except clause
\* around it is never entered.)
PrintDocument ==
    /\ FramingOk
    /\ Len(out) < MaxPrinted
    /\ \E t \in Tapes :
         LET Emit(d) == d.st = "ok" /\ out' = Append(out, d.value)
         IN  /\ Emit(_elements_to_dict(data, position + 4, eoo, t, 0))
             /\ tape' = t
    /\ position' = Add(position, obj_size)
    /\ UNCHANGED <<data, pc, docs, ret, doc, at, fn, tape2, ret2>>

\* the document's _elements_to_dict never returns
DocumentHangs ==
    /\ FramingOk
    /\ \E t \in Tapes :
         /\ _elements_to_dict(data, position + 4, eoo, t, 0).st = "hang"
         /\ tape' = t
    /\ pc' = "hung"
    /\ UNCHANGED <<data, position, docs, out, ret, doc, at, fn, tape2, ret2>>

\* return docs
Return ==
    /\ pc = "loop" /\ ~(position < end)
    /\ pc' = "returned"
    /\ ret' = [kind |-> "return", docs |-> docs]
    /\ UNCHANGED <<data, position, docs, out, tape, doc, at, fn, tape2, ret2>>

Next ==
    \/ StructError
    \/ ObjsizeTooLarge
    \/ EooIndexError
    \/ BadEoo
    \/ PrintDocument
    \/ DocumentHangs
    \/ Return

Spec == Init /\ [][Next]_vars

(***************************************************************************)
(* Well-formed documents and their corruptions                             *)
(***************************************************************************)

\* An element as an encoder writes it: the type tag, the name, the size or
\* length field of the value (prefix), the rest of the value (payload), and
\* the value it stands for.
Elem(tag, name, prefix, payload, value) ==
    [tag |-> tag, name |-> name, prefix |-> prefix, payload |-> payload,
     value |-> value]

\* "a": 1 (int32)
ElemInt == Elem(16, <<97>>, <<>>, <<1, 0, 0, 0>>, Val("int32", 1))
\* "b": None
ElemNull == Elem(10, <<98>>, <<>>, <<>>, None)
\* "c": True
ElemBool == Elem(8, <<99>>, <<>>, <<1>>, Val("bool", TRUE))
\* "s": u"hi"
ElemString == Elem(2, <<115>>, <<3, 0, 0, 0>>, <<104, 105, 0>>,
                   Val("string", <<104, 105>>))
\* "t": the date 1 ms after the epoch
ElemDate == Elem(9, <<116>>, <<>>, <<1, 0, 0, 0, 0, 0, 0, 0>>,
                 Val("date", <<1, 0, 0, 0, 0, 0, 0, 0>>))
\* "d": {"a": None}
ElemDoc == Elem(3, <<100>>, <<8, 0, 0, 0>>, <<10, 97, 0, 0>>,
                Val("document", (<<97>> :> None)))
\* "r": [None, True]
ElemArray == Elem(4, <<114>>, <<12, 0, 0, 0>>, <<10, 48, 0, 8, 49, 0, 1, 0>>,
                  Val("array", <<None, Val("bool", TRUE)>>))
\* "x": re.compile(u"a", re.IGNORECASE)
ElemRegex == Elem(11, <<120>>, <<>>, <<97, 0, 105, 0>>,
                  Val("regex", << <<97>>, 2 >>))
\* "y": Binary("\x01\x02", 0)
ElemBinary == Elem(5, <<121>>, <<2, 0, 0, 0>>, <<0, 1, 2>>,
                   Val("binary", <<0, <<1, 2>> >>))
\* "UNKNOWN5": None
ElemUnknown5 == Elem(10, <<85, 78, 75, 78, 79, 87, 78, 53>>, <<>>, <<>>, None)
\* "k": Code(u"j", {"a": None})
ElemCodeWScope == Elem(15, <<107>>, <<18, 0, 0, 0>>,
                       <<2, 0, 0, 0, 106, 0, 8, 0, 0, 0, 10, 97, 0, 0>>,
                       Val("code", << <<106>>, (<<97>> :> None) >>))
\* "l": 2 (int64)
ElemLong == Elem(18, <<108>>, <<>>, <<2, 0, 0, 0, 0, 0, 0, 0>>,
                 Val("int64", <<2, 0, 0, 0, 0, 0, 0, 0>>))

\* the well-formed documents, as element lists
BaseDocs == <<
    <<ElemInt, ElemNull, ElemBool>>,
    <<ElemString, ElemDate, ElemNull>>,
    <<ElemDoc, ElemRegex, ElemInt>>,
    <<ElemArray, ElemBinary, ElemBool>>,
    <<ElemUnknown5, ElemInt>>,
    <<ElemCodeWScope, ElemLong, ElemNull>> >>

ElemBytes(e) == <<e.tag>> \o e.name \o <<0>> \o e.prefix \o e.payload

RECURSIVE BodyBytes(_)
BodyBytes(elems) ==
    IF elems = <<>> THEN <<>> ELSE ElemBytes(Head(elems)) \o BodyBytes(Tail(elems))

\* <int32 total_size><elements><0x00>
Encode(elems) == pack_i(Len(BodyBytes(elems)) + 5) \o BodyBytes(elems) \o <<0>>

\* the mapping elems stands for (a later duplicate key wins)
RECURSIVE Expected(_)
Expected(elems) ==
    IF elems = <<>> THEN <<>>
    ELSE LET n == Len(elems)
         IN  DictSet(Expected(SubSeq(elems, 1, n - 1)), elems[n].name, elems[n].value)

\* offsets (0-based) in Encode(elems) of element j: its type tag, its name
\* bytes, its size field, its payload
TagOffset(elems, j) == 4 + Len(BodyBytes(SubSeq(elems, 1, j - 1)))
NameOffsets(elems, j) ==
    (TagOffset(elems, j) + 1) .. (TagOffset(elems, j) + Len(elems[j].name))
PrefixOffset(elems, j) == TagOffset(elems, j) + Len(elems[j].name) + 2
PayloadOffsets(elems, j) ==
    (PrefixOffset(elems, j) + Len(elems[j].prefix))
      .. (PrefixOffset(elems, j) + Len(elems[j].prefix) + Len(elems[j].payload) - 1)

\* buffers that come from no well-formed document: two elements whose
\* names are not UTF-8; an array with the keys "0", "1", "2", "4"; an array
\* of eleven elements; an embedded document whose string element declares
\* the length -7; a document cut before the NUL of its last name
DamagedDocs == {
    <<11, 0, 0, 0, 10, 255, 0, 10, 254, 0, 0>>,
    <<25, 0, 0, 0, 4, 114, 0, 17, 0, 0, 0,
      10, 48, 0, 10, 49, 0, 8, 50, 0, 1, 10, 52, 0, 0, 0>>,
    <<47, 0, 0, 0, 4, 114, 0, 39, 0, 0, 0,
      10, 48, 0, 10, 49, 0, 10, 50, 0, 10, 51, 0, 10, 52, 0, 10, 53, 0,
      10, 54, 0, 10, 55, 0, 10, 56, 0, 8, 57, 0, 1, 8, 49, 48, 0, 0, 0, 0>>,
    <<20, 0, 0, 0, 3, 100, 0, 12, 0, 0, 0, 2, 97, 0, 249, 255, 255, 255, 0, 0>>,
    <<12, 0, 0, 0, 16, 97, 0, 1, 0, 0, 0, 10, 98>> }

(***************************************************************************)
(* The Document Parser on one document, decoded once and once again        *)
(***************************************************************************)

\* A well-formed document, intact or with one byte between its size field
\* and its terminator replaced by another, or a damaged document.
InitDoc ==
    /\ \/ /\ doc \in 1 .. Len(BaseDocs)
          /\ \/ at = -1 /\ data = Encode(BaseDocs[doc])
             \/ /\ at \in 4 .. (Len(Encode(BaseDocs[doc])) - 2)
                /\ \E b \in CorruptBytes :
                     /\ b # Encode(BaseDocs[doc])[at + 1]
                     /\ data = Corrupt(Encode(BaseDocs[doc]), at, b)
       \/ doc = 0 /\ at = -1 /\ data \in DamagedDocs
    /\ pc = "start"
    /\ fn = "_elements_to_dict"
    /\ position = 4
    /\ docs = <<>> /\ out = <<>>
    /\ tape = <<>> /\ ret = [kind |-> "none"]
    /\ tape2 = <<>> /\ ret2 = [kind |-> "none"]

\* _elements_to_dict(data, 4, len(data) - 1, ...) as decode_all calls it
\* for a buffer that holds this one document
Decode ==
    /\ pc = "start"
    /\ \E t \in Tapes :
         /\ tape' = t
         /\ ret' = _elements_to_dict(data, position, Len(data) - 1, t, 0)
    /\ pc' = "decoded"
    /\ UNCHANGED <<data, position, docs, out, doc, at, fn, tape2, ret2>>

\* the same buffer decoded a second time
DecodeAgain ==
    /\ pc = "decoded"
    /\ \E t \in Tapes :
         /\ tape2' = t
         /\ ret2' = _elements_to_dict(data, position, Len(data) - 1, t, 0)
    /\ pc' = "decoded twice"
    /\ UNCHANGED <<data, position, docs, out, doc, at, fn, tape, ret>>

NextDoc == Decode \/ DecodeAgain

SpecDoc == InitDoc /\ [][NextDoc]_vars

(***************************************************************************)
(* Properties of the Document Parser                                       *)
(***************************************************************************)

\* the elements of the well-formed document, and the element the corrupted
\* byte belongs to, by the part of it the byte lies in
Elems == BaseDocs[doc]
Corrupted == doc > 0 /\ at >= 0
TagHit(j) == at = TagOffset(Elems, j)
NameHit(j) == at \in NameOffsets(Elems, j)
PayloadHit(j) == at \in PayloadOffsets(Elems, j)
Keys(elems) == {elems[i].name : i \in 1 .. Len(elems)}
Before(j) == SubSeq(Elems, 1, j - 1)

\* A well-formed document decodes to the mapping it stands for.
RoundTrip ==
    (pc = "decoded" /\ doc > 0 /\ at = -1)
        => (ret.st = "ok" /\ ret.value = Expected(Elems))

\* C6: when the type tag of element j is not in the dispatch table, the
\* Document Parser returns exactly the mapping of the elements before j:
\* no entry for element j and none for any later element.
C6_UnknownTagStops ==
    (pc = "decoded" /\ Corrupted)
        => \A j \in 1 .. Len(Elems) :
             (TagHit(j) /\ PyItem(data, at) \notin ElementTypes)
                 => (ret.st = "ok" /\ ret.value = Expected(Before(j)))

\* a three-key document whose second tag is unknown has decoded to one key
C6_Witness ==
    /\ pc = "decoded" /\ Corrupted
    /\ Len(Elems) = 3
    /\ TagHit(2) /\ PyItem(data, at) \notin ElementTypes
    /\ ret.st = "ok" /\ DOMAIN ret.value = {Elems[1].name}

\* C5 as claimed: with one payload byte of element j corrupted, the decoded
\* mapping has every key before element j and none of the keys at or after.
C5_PayloadDamageCutsDocument ==
    (pc = "decoded" /\ Corrupted)
        => \A j \in 1 .. Len(Elems) :
             PayloadHit(j) => (ret.st = "ok" /\ DOMAIN ret.value = Keys(Before(j)))

\* element j of the corrupted buffer, decoded by itself, raises
ElementFails(j) ==
    _element_to_dict(data, TagOffset(Elems, j), tape, 0).st = "raise"

\* C5 as amended: with one payload byte of element j corrupted, a decoded
\* mapping has every key before element j; when the damage makes element j's
\* decoder fail the mapping is exactly that of the elements before j, and
\* otherwise element j is decoded and its key is in the mapping too.
C5_PayloadDamage ==
    (pc = "decoded" /\ Corrupted /\ ret.st = "ok")
        => \A j \in 1 .. Len(Elems) :
             PayloadHit(j) =>
                 /\ Keys(Before(j)) \subseteq DOMAIN ret.value
                 /\ ElementFails(j) => ret.value = Expected(Before(j))
                 /\ ~ElementFails(j) => Elems[j].name \in DOMAIN ret.value

\* a corrupted payload byte that element j's decoder rejects, with a key
\* before it kept, and one it accepts, with the keys after it kept
C5_Witness ==
    /\ pc = "decoded" /\ Corrupted /\ ret.st = "ok"
    /\ \E j \in 2 .. Len(Elems) :
         /\ PayloadHit(j) /\ ElementFails(j)
         /\ ret.value = Expected(Before(j))

\* the fake key for the random value r
FakeKey(r) == <<85, 78, 75, 78, 79, 87, 78>> \o str(r)

\* the mapping d with key old renamed to new
Renamed(d, old, new) ==
    [k \in (DOMAIN d \ {old}) \cup {new} |-> IF k = new THEN d[old] ELSE d[k]]

\* the name bytes of element j in the buffer
NameBytes(j) ==
    SubSeq(data, TagOffset(Elems, j) + 2, TagOffset(Elems, j) + 1 + Len(Elems[j].name))

\* C7: when the name of element j is damaged into bytes that are not UTF-8
\* (and still ends at its NUL), the decoded mapping is that of the undamaged
\* document with one placeholder key in place of the damaged name: as many
\* keys, every other key and every value the same.
C7_NameDamageRenames ==
    (pc = "decoded" /\ Corrupted)
        => \A j \in 1 .. Len(Elems) :
             (NameHit(j) /\ PyItem(data, at) # 0 /\ ~utf8_decode(NameBytes(j)).ok)
                 => /\ ret.st = "ok"
                    /\ Cardinality(DOMAIN ret.value) = Cardinality(DOMAIN Expected(Elems))
                    /\ \E r \in RandVals :
                         ret.value = Renamed(Expected(Elems), Elems[j].name, FakeKey(r))

\* a key that is a fake key: "UNKNOWN" and digits
IsFakeKey(k) ==
    /\ Len(k) > 7
    /\ SubSeq(k, 1, 7) = <<85, 78, 75, 78, 79, 87, 78>>
    /\ \A i \in 8 .. Len(k) : k[i] \in 48 .. 57

\* two decoded values of the same structure: the same kind, mappings with
\* as many keys and the same values under the keys that are no fake keys,
\* sequences of the same length, and equal scalars (fake text aside)
RECURSIVE SameShape(_, _)
SameDict(a, b) ==
    /\ Cardinality(DOMAIN a) = Cardinality(DOMAIN b)
    /\ \A k \in DOMAIN a :
         IsFakeKey(k) \/ (k \in DOMAIN b /\ SameShape(a[k], b[k]))
    /\ \A k \in DOMAIN b : IsFakeKey(k) \/ k \in DOMAIN a

SameShape(x, y) ==
    /\ x.kind = y.kind
    /\ CASE x.kind = "document" -> SameDict(x.v, y.v)
         [] x.kind = "array" ->
              /\ Len(x.v) = Len(y.v)
              /\ \A i \in 1 .. Len(x.v) : SameShape(x.v[i], y.v[i])
         [] x.kind = "code" ->
              /\ (x.v[1] = y.v[1] \/ (IsFakeKey(x.v[1]) /\ IsFakeKey(y.v[1])))
              /\ SameDict(x.v[2], y.v[2])
         [] x.kind = "string" -> x.v = y.v \/ (IsFakeKey(x.v) /\ IsFakeKey(y.v))
         [] x.kind = "regex" ->
              /\ (x.v[1] = y.v[1] \/ (IsFakeKey(x.v[1]) /\ IsFakeKey(y.v[1])))
              /\ x.v[2] = y.v[2]
         [] OTHER -> x.v = y.v

\* C9: two decodes of the same buffer give results of the same structure,
\* whatever random.randint returns in either.
C9_SameStructureTwice ==
    pc = "decoded twice"
        => /\ ret.st = ret2.st
           /\ ret.st = "ok" => SameDict(ret.value, ret2.value)

(***************************************************************************)
(* Properties of the stream decoder                                        *)
(***************************************************************************)

\* the documents the caller of decode_all holds when the call is over: the
\* list returned, and none when an exception came out instead
Received == IF ret.kind = "return" THEN ret.docs ELSE <<>>

\* C1: when every top-level document passed the framing check and decode_all
\* has returned, the sequence it returned holds, in input order, the mapping
\* the Document Parser produced for each top-level document.
C1_ReturnsEveryDocument ==
    pc = "returned" => (ret.kind = "return" /\ ret.docs = out)

\* C2: when decode_all stops at a top-level position whose declared size
\* exceeds the bytes remaining, or whose last byte is not 0x00, the caller
\* receives the failure indication and exactly the documents recovered
\* before that position.
C2_FramingErrorKeepsDocuments ==
    (pc = "raised" /\ ret.exc = "InvalidBSON")
        => (ret.kind = "raise" /\ Len(Received) = Len(out) /\ Received = out)

\* C3: each iteration of decode_all's top-level loop strictly increases
\* position.
C3_LoopMovesForward ==
    [][(pc = "loop" /\ pc' = "loop") => position' > position]_vars

(***************************************************************************)
(* Single calls of the decoders at a cursor                                *)
(***************************************************************************)

\* the decoders called, each with (data, position, as_class, tz_aware)
\* and _get_c_string with length=None
Called == {"_get_object", "_get_array", "_get_c_string", "_element_to_dict"}

\* The buffers of the Document Parser, with a cursor anywhere in the buffer
\* or at its end.
InitCall ==
    /\ \/ /\ doc \in 1 .. Len(BaseDocs)
          /\ \/ at = -1 /\ data = Encode(BaseDocs[doc])
             \/ /\ at \in 4 .. (Len(Encode(BaseDocs[doc])) - 2)
                /\ \E b \in CorruptBytes :
                     /\ b # Encode(BaseDocs[doc])[at + 1]
                     /\ data = Corrupt(Encode(BaseDocs[doc]), at, b)
       \/ doc = 0 /\ at = -1 /\ data \in DamagedDocs
    /\ position \in 0 .. Len(data)
    /\ fn \in Called
    /\ pc = "start"
    /\ docs = <<>> /\ out = <<>>
    /\ tape = <<>> /\ ret = [kind |-> "none"]
    /\ tape2 = <<>> /\ ret2 = [kind |-> "none"]

\* the call is over (or known never to be): ret holds its outcome
Outcome(t, r) ==
    /\ tape' = t
    /\ ret' = r
    /\ pc' = "called"
    /\ UNCHANGED <<data, position, docs, out, doc, at, fn, tape2, ret2>>

CallGetObject ==
    /\ pc = "start" /\ fn = "_get_object"
    /\ \E t \in Tapes : Outcome(t, _get_object(data, position, t, 0))

CallGetArray ==
    /\ pc = "start" /\ fn = "_get_array"
    /\ \E t \in Tapes : Outcome(t, _get_array(data, position, t, 0))

CallGetCString ==
    /\ pc = "start" /\ fn = "_get_c_string"
    /\ \E t \in Tapes : Outcome(t, _get_c_string(data, position, <<>>, t, 0))

CallElementToDict ==
    /\ pc = "start" /\ fn = "_element_to_dict"
    /\ \E t \in Tapes : Outcome(t, _element_to_dict(data, position, t, 0))

NextCall ==
    \/ CallGetObject
    \/ CallGetArray
    \/ CallGetCString
    \/ CallElementToDict

SpecCall == InitCall /\ [][NextCall]_vars

(***************************************************************************)
(* Properties of single calls                                              *)
(***************************************************************************)

\* the four bytes at cursor c, and the size they declare
SizeField(c) == PySlice(data, c, c + 4)
DeclaredSize(c) == unpack_i(SizeField(c))

\* what the Document Parser builds for the embedded document at cursor c
Inner(c) ==
    _elements_to_dict(data, c + 4, Add(Add(c, DeclaredSize(c)), -1), tape, 0)

\* the cursor after the name of the element at position (0 when the name
\* has no NUL)
AfterName == PyIndexNul(data, position + 1) + 1

LeastAbsent(obj) ==
    CHOOSE n \in 0 .. Cardinality(DOMAIN obj) :
        /\ str(n) \notin DOMAIN obj
        /\ \A m \in 0 .. (n - 1) : str(m) \in DOMAIN obj

\* C10: the sequence _get_array returns has length n, the smallest
\* non-negative integer whose decimal string is not a key of the decoded
\* embedded document, and holds the values under "0" .. str(n - 1) in
\* order; entries under higher indexes are left out.
C10_ArrayProjection ==
    LET Projects(obj) ==
            /\ obj.st = "ok"
            /\ Len(ret.value.v) = LeastAbsent(obj.value)
            /\ \A k \in 1 .. Len(ret.value.v) :
                 ret.value.v[k] = obj.value[str(k - 1)]
    IN  (pc = "called" /\ fn = "_get_array" /\ ret.st = "ok")
            => Projects(_get_object(data, position, tape, 0))

\* the keys "0", "1", "2", "4" have given a sequence of three
C10_Witness ==
    LET Gap(obj) ==
            /\ obj.st = "ok"
            /\ DOMAIN obj.value = {<<48>>, <<49>>, <<50>>, <<52>>}
    IN  /\ pc = "called" /\ fn = "_get_array" /\ ret.st = "ok"
        /\ Len(ret.value.v) = 3
        /\ Gap(_get_object(data, position, tape, 0))

====
